---- MODULE Spec2Model ----
(***************************************************************************)
(* State-machine model of lg_tv_remote.py: the LGTVRemote device session,  *)
(* the asyncio worker loop that TVRemoteGUI.start_async_loop starts, the   *)
(* blocking bridge TVRemoteGUI.run_async, and the caller threads           *)
(* (the Tk main thread, connect_tv.connect, launch_app_smart.smart_launcher*)
(* and refresh_apps.get_apps).                                             *)
(***************************************************************************)
EXTENDS Integers, Sequences, FiniteSets, TLC

(* ------------------------------ bounds --------------------------------- *)
\* number of user actions (button clicks, window close excluded) explored
MaxClicks == 2
\* number of future.result(timeout=10) waits that are allowed to time out
MaxTimeouts == 1
\* number of coroutines submitted to the loop
MaxTasks == 2
\* the same three bounds where the program is explored under fairness
FairClicks == 2
FairTimeouts == 1
FairTasks == 2
\* the same bounds where one call of the launcher is explored on its own
LaunchTimeouts == 1
LaunchTasks == 4

(* ------------------------------ values --------------------------------- *)
NoKey == "None"
Keys == {"k1"}
IPs == {"", "192.168.1.100"}

\* Python values returned by the coroutines, in one record shape
None == [kind |-> "none", b |-> FALSE, apps |-> <<>>]
Bool(x) == [kind |-> "bool", b |-> x, apps |-> <<>>]
Apps(a) == [kind |-> "apps", b |-> FALSE, apps |-> a]
\* truth value of a Python object in `if success:` / `if apps:`
Truthy(v) == (v.kind = "bool" /\ v.b) \/ (v.kind = "apps" /\ v.apps # <<>>)

NoCall == [name |-> "none", arg |-> "", client |-> 0]

VARIABLES
    client,        \* LGTVRemote.client: 0 is None, else index into clients
    clients,       \* the WebOsClient objects created so far: [key]
    connected,     \* LGTVRemote.connected
    client_key,    \* LGTVRemote.client_key
    saved_client_key, \* TVRemoteGUI.saved_client_key
    config,        \* contents of tv_remote_config.json written by save_config
    tasks,         \* coroutines handed to the loop by run_coroutine_threadsafe
    ready,         \* the event loop's FIFO of ready callbacks
    ntodo,         \* callbacks left in the loop's current iteration
    stopping,      \* loop.stop() has run
    loopState,     \* "running" | "stopped"
    threads,       \* the daemon caller threads
    gui,           \* the Tk main thread and its widgets
    clicks,        \* user actions so far
    timeouts,      \* waits that timed out so far
    lim            \* the bounds of the run: [clicks, timeouts, tasks]

vars == <<client, clients, connected, client_key, saved_client_key, config,
          tasks, ready, ntodo, stopping, loopState, threads, gui, clicks,
          timeouts, lim>>

session == <<client, clients, connected, client_key>>
loopVars == <<ready, ntodo, stopping, loopState>>

(* ------------------------- LGTVRemote.__init__ ------------------------- *)
\* TVRemoteGUI.__init__: LGTVRemote(), setup_gui, load_config (the config
\* file is absent, or holds a key saved by an earlier run), start_async_loop
Init ==
    /\ client = 0
    /\ clients = <<>>
    /\ connected = FALSE
    /\ client_key = NoKey
    /\ saved_client_key \in {NoKey} \cup Keys
    /\ config = [written |-> 0, key |-> NoKey]
    /\ tasks = <<>>
    /\ ready = <<>>
    /\ ntodo = 0
    /\ stopping = FALSE
    /\ loopState = "running"
    /\ threads = <<>>
    /\ gui = [pc |-> "idle", cmd |-> 0, op |-> "", connect_btn |-> "normal",
              status |-> "Ready", listbox |-> <<>>, selected |-> 0]
    /\ clicks = 0
    /\ timeouts = 0
    /\ lim = [clicks |-> MaxClicks, timeouts |-> MaxTimeouts, tasks |-> MaxTasks]

(* ------------------------- run_async: submit --------------------------- *)
\* variant: the handle is put ahead of what is already ready
EnqueueFront(q, h) == <<h>> \o q

\* a handle appended to the loop's ready queue (call_soon, call_soon_threadsafe)
Enqueue(q, h) == Append(q, h)

NewTask(op, arg, key) ==
    [op |-> op, arg |-> arg, key |-> key, st |-> "pending", call |-> NoCall,
     resp |-> [ok |-> TRUE, val |-> None, key |-> NoKey], result |-> None,
     raised |-> FALSE, caller |-> "waiting", got |-> None]

\* asyncio.run_coroutine_threadsafe(coro, self.loop): the coroutine object is
\* created and a callback that will wrap it in a Task is queued on the loop
Submit(ts, op, arg, key) ==
    /\ Len(ts) < lim.tasks
    /\ tasks' = Append(ts, NewTask(op, arg, key))
    /\ ready' = Enqueue(ready, [kind |-> "create", t |-> Len(ts) + 1])

\* variant: the wait has no timeout
EndsOnResultOnly(c, how) == how = "result" /\ tasks[c].st = "delivered"

\* future.result(timeout=10) ends: with the outcome the loop delivered, or
\* by timing out while no outcome has been delivered
Ends(c, how) ==
    \/ how = "result" /\ tasks[c].st = "delivered"
    \/ how = "timeout" /\ tasks[c].st # "delivered" /\ timeouts < lim.timeouts

\* what future.result did in the caller: returned, raised the coroutine's
\* exception, or raised TimeoutError
Outcome(c, how) ==
    IF how = "timeout" THEN "timeout"
    ELSE IF tasks[c].raised THEN "error" ELSE "returned"

\* the value run_async returns to its caller
Returned(c, how) ==
    IF Outcome(c, how) = "returned" THEN tasks[c].result ELSE None

\* the status bar after run_async: except Exception as e: update_status("Error: ...")
StatusAfter(c, how) ==
    IF Outcome(c, how) = "returned" THEN gui.status ELSE "Error"

\* variant: a timeout cancels the coroutine
WaitedCancels(c, how) ==
    [tasks EXCEPT ![c].caller = Outcome(c, how), ![c].got = Returned(c, how),
                  ![c].st = IF how = "timeout" THEN "cancelled" ELSE @]

\* the caller's wait is over (caller: how future.result ended, got: what
\* run_async returned); the task itself is left as it is
Waited(c, how) ==
    [tasks EXCEPT ![c].caller = Outcome(c, how), ![c].got = Returned(c, how)]

Count(how) == IF how = "timeout" THEN timeouts + 1 ELSE timeouts

(* --------------------------- the worker loop --------------------------- *)
\* BaseEventLoop._run_once as run_forever drives it: an iteration runs the
\* handles that were ready when it began; after an iteration in which
\* loop.stop() ran, run_forever returns
\* variant: an exception raised in a coroutine ends the loop
TickDiesOnRaise ==
    LET n == IF ntodo = 0 THEN Len(ready) ELSE ntodo IN
    /\ ntodo' = n - 1
    /\ loopState' = IF \/ (n - 1 = 0 /\ stopping')
                       \/ \E t \in 1..Len(tasks) : tasks'[t].raised /\ ~tasks[t].raised
                    THEN "stopped" ELSE "running"

Tick ==
    LET n == IF ntodo = 0 THEN Len(ready) ELSE ntodo IN
    /\ ntodo' = n - 1
    /\ loopState' = IF n - 1 = 0 /\ stopping' THEN "stopped" ELSE "running"

\* variant: a stopped loop goes on running the handles left in its queue
RunsWhenStopped(kind) ==
    /\ ready # <<>>
    /\ Head(ready).kind = kind

Runs(kind) ==
    /\ loopState = "running"
    /\ ready # <<>>
    /\ Head(ready).kind = kind

\* the coroutine suspends in `await self.client.<name>(arg)` on client c
Issue(t, name, arg, c) ==
    /\ tasks' = [tasks EXCEPT ![t].st = "awaiting",
                              ![t].call = [name |-> name, arg |-> arg, client |-> c]]
    /\ ready' = Tail(ready)

\* the coroutine returns v, or raises when raised: the Task is done and the
\* callback that copies its outcome to the caller's future is queued
Finish(t, v, raised) ==
    /\ tasks' = [tasks EXCEPT ![t].st = "finished", ![t].result = v,
                              ![t].raised = raised]
    /\ ready' = Enqueue(Tail(ready), [kind |-> "deliver", t |-> t])

\* the callback queued by run_coroutine_threadsafe: ensure_future(coro)
\* creates the Task, whose first step is queued behind what is ready
LoopCreate ==
    /\ Runs("create")
    /\ LET t == Head(ready).t IN
       /\ tasks' = [tasks EXCEPT ![t].st = "scheduled"]
       /\ ready' = Enqueue(Tail(ready), [kind |-> "step", t |-> t])
    /\ UNCHANGED stopping
    /\ Tick
    /\ UNCHANGED <<session, saved_client_key, config, threads, gui, clicks, timeouts, lim>>

\* the Task's done-callback: the caller's concurrent future gets the outcome
LoopDeliver ==
    /\ Runs("deliver")
    /\ LET t == Head(ready).t IN
       /\ tasks' = [tasks EXCEPT ![t].st = "delivered"]
       /\ ready' = Tail(ready)
    /\ UNCHANGED stopping
    /\ Tick
    /\ UNCHANGED <<session, saved_client_key, config, threads, gui, clicks, timeouts, lim>>

\* loop.stop, queued by run() with call_soon_threadsafe
LoopStop ==
    /\ Runs("stop")
    /\ stopping' = TRUE
    /\ ready' = Tail(ready)
    /\ UNCHANGED tasks
    /\ Tick
    /\ UNCHANGED <<session, saved_client_key, config, threads, gui, clicks, timeouts, lim>>

(* ------------------------ LGTVRemote coroutines ------------------------ *)
\* the task whose step is at the head of the ready queue
Cur == Head(ready).t

StepOf(ops) ==
    /\ Runs("step")
    /\ tasks[Cur].op \in ops
    /\ tasks[Cur].st \in {"scheduled", "woken"}

\* LGTVRemote.connect_to_tv
connect_to_tv ==
    /\ StepOf({"connect_to_tv"})
    /\ LET t == Cur
           T == tasks[t] IN
       IF T.st = "scheduled"
       THEN \* self.client = WebOsClient(ip_address, client_key=client_key)
            \* await self.client.connect()
            /\ clients' = Append(clients, [key |-> T.key])
            /\ client' = Len(clients) + 1
            /\ Issue(t, "connect", T.arg, Len(clients) + 1)
            /\ UNCHANGED <<connected, client_key>>
       ELSE IF T.resp.ok
       THEN \* the client that connected holds the key the TV granted;
            \* self.connected = True; self.client_key = self.client.client_key
            /\ clients' = [clients EXCEPT ![T.call.client].key = T.resp.key]
            /\ connected' = TRUE
            /\ client_key' = clients'[client].key
            /\ Finish(t, Bool(TRUE), FALSE)
            /\ UNCHANGED client
       ELSE \* except Exception: return False
            /\ Finish(t, Bool(FALSE), FALSE)
            /\ UNCHANGED session
    /\ UNCHANGED stopping
    /\ Tick
    /\ UNCHANGED <<saved_client_key, config, threads, gui, clicks, timeouts, lim>>

\* the operations that make one device request and return nothing
SingleCallOps == {"volume_up", "nav_up", "power_off", "launch_app"}

\* the device-client method a single-call operation awaits
DeviceMethod(op) ==
    CASE op = "volume_up" -> "volume_up"
      [] op = "nav_up" -> "button"
      [] op = "power_off" -> "power_off"
      [] op = "launch_app" -> "launch_app"

DeviceArg(T) ==
    CASE T.op = "nav_up" -> "UP"
      [] T.op = "launch_app" -> T.arg
      [] OTHER -> ""

\* the precondition every operation tests before it touches the device
HasSession == client # 0

\* LGTVRemote.volume_up, nav_up, power_off, launch_app:
\*     if self.client: await self.client.<method>(<arg>)
single_call_op ==
    /\ StepOf(SingleCallOps)
    /\ LET t == Cur
           T == tasks[t] IN
       IF T.st = "scheduled"
       THEN IF HasSession
            THEN Issue(t, DeviceMethod(T.op), DeviceArg(T), client)
            ELSE Finish(t, None, FALSE)
       ELSE Finish(t, None, ~T.resp.ok)
    /\ UNCHANGED stopping
    /\ Tick
    /\ UNCHANGED <<session, saved_client_key, config, threads, gui, clicks, timeouts, lim>>

\* variant: the value read is written back as it is
NotNegated(b) == IF b THEN "True" ELSE "False"

\* `not muted`, as the argument of set_mute
Not(b) == IF b THEN "False" ELSE "True"

\* LGTVRemote.mute_toggle:
\*     if self.client: await self.client.set_mute(not await self.client.get_muted())
mute_toggle ==
    /\ StepOf({"mute_toggle"})
    /\ LET t == Cur
           T == tasks[t] IN
       IF T.st = "scheduled"
       THEN IF HasSession
            THEN Issue(t, "get_muted", "", client)
            ELSE Finish(t, None, FALSE)
       ELSE IF ~T.resp.ok
       THEN Finish(t, None, TRUE)
       ELSE IF T.call.name = "get_muted"
       THEN Issue(t, "set_mute", Not(T.resp.val.b), T.call.client)
       ELSE Finish(t, None, FALSE)
    /\ UNCHANGED stopping
    /\ Tick
    /\ UNCHANGED <<session, saved_client_key, config, threads, gui, clicks, timeouts, lim>>

\* LGTVRemote.get_apps
get_apps ==
    /\ StepOf({"get_apps"})
    /\ LET t == Cur
           T == tasks[t] IN
       IF T.st = "scheduled"
       THEN IF HasSession
            THEN Issue(t, "get_apps", "", client)
            ELSE Finish(t, Apps(<<>>), FALSE)
       ELSE IF T.resp.ok
       THEN Finish(t, T.resp.val, FALSE)
       ELSE Finish(t, None, TRUE)
    /\ UNCHANGED stopping
    /\ Tick
    /\ UNCHANGED <<session, saved_client_key, config, threads, gui, clicks, timeouts, lim>>

(* ------------------------------ strings -------------------------------- *)
\* a Python str is the sequence of its characters
UpperCase == <<"A", "B", "C", "D", "E", "F", "G", "H", "I", "J", "K", "L", "M", "N", "O", "P", "Q", "R", "S", "T", "U", "V", "W", "X", "Y", "Z">>
LowerCase == <<"a", "b", "c", "d", "e", "f", "g", "h", "i", "j", "k", "l", "m", "n", "o", "p", "q", "r", "s", "t", "u", "v", "w", "x", "y", "z">>

\* str.lower(), character by character
LowerChar(c) ==
    IF \E i \in 1..Len(UpperCase) : UpperCase[i] = c
    THEN LowerCase[CHOOSE i \in 1..Len(UpperCase) : UpperCase[i] = c]
    ELSE c
Lower(s) == [i \in 1..Len(s) |-> LowerChar(s[i])]

\* Python's `sub in s` on strings
In(sub, s) ==
    \E i \in 1..(Len(s) - Len(sub) + 1) : SubSeq(s, i, i + Len(sub) - 1) = sub

\* the names the launcher is asked for: app buttons of setup_gui, and names
\* no button carries
YouTube == <<"Y", "o", "u", "T", "u", "b", "e">>
Hulu == <<"H", "u", "l", "u">>
PrimeVideo == <<"P", "r", "i", "m", "e", " ", "V", "i", "d", "e", "o">>
ESPN == <<"E", "S", "P", "N">>
hulu == <<"h", "u", "l", "u">>
Requested == {YouTube, Hulu, PrimeVideo, ESPN, hulu}

\* app lists the TV may answer get_apps with
Catalogs ==
    { <<>>,
      << [id |-> "youtube.leanback.v4", title |-> YouTube],
         [id |-> "com.hulu.live", title |-> <<"H", "U", "L", "U", " ", "L", "i", "v", "e">>] >>,
      << [id |-> "x", title |-> <<"A", "m", "a", "z", "o", "n", " ", "P", "r", "i", "m", "e", " ", "V", "i", "d", "e", "o">>],
         [id |-> "tube", title |-> <<"T", "u", "b", "e">>],
         [id |-> "com.hulu.plus", title |-> Hulu] >>,
      << [id |-> "com.webos.app.untitled", title |-> <<>>],
         [id |-> "youtube.leanback.v4", title |-> YouTube] >> }

(* -------------------- launch_app_smart.smart_launcher ------------------ *)
\* variant: the requested name is looked for in the title only
MatchesOneWay(app_name, app) == In(Lower(app_name), Lower(app.title))

\* if app_name.lower() in app_title or app_title in app_name.lower()
\* with app_title = app.get('title', '').lower()
Matches(app_name, app) ==
    \/ In(Lower(app_name), Lower(app.title))
    \/ In(Lower(app.title), Lower(app_name))

\* for app in apps: ... the index of the entry the loop stops at, 0 if the
\* loop runs to its end
RECURSIVE Scan(_, _, _)
Scan(app_name, apps, i) ==
    IF i > Len(apps) THEN 0
    ELSE IF Matches(app_name, apps[i]) THEN i
    ELSE Scan(app_name, apps, i + 1)

\* fallback_ids
fallback_ids ==
    <<
       [name |-> <<"N", "e", "t", "f", "l", "i", "x">>,
        ids |-> <<"netflix">>],
       [name |-> <<"Y", "o", "u", "T", "u", "b", "e">>,
        ids |-> <<"youtube.leanback.v4", "youtube">>],
       [name |-> <<"P", "r", "i", "m", "e", " ", "V", "i", "d", "e", "o">>,
        ids |-> <<"amazon", "primevideo">>],
       [name |-> <<"D", "i", "s", "n", "e", "y", "+">>,
        ids |-> <<"com.disney.disneyplus-prod", "disney">>],
       [name |-> <<"H", "u", "l", "u">>,
        ids |-> <<"hulu">>],
       [name |-> <<"A", "p", "p", "l", "e", " ", "T", "V">>,
        ids |-> <<"com.apple.appletv", "appletv">>],
       [name |-> <<"H", "B", "O", " ", "M", "a", "x">>,
        ids |-> <<"com.hbo.hbonow", "hbomax", "com.hbo.max">>],
       [name |-> <<"P", "e", "a", "c", "o", "c", "k">>,
        ids |-> <<"com.peacocktv.peacocktv", "peacock", "com.peacocktv">>],
       [name |-> <<"E", "S", "P", "N">>,
        ids |-> <<"espn", "com.espn.webostv", "com.espn.app">>],
       [name |-> <<"F", "o", "o", "d", " ", "N", "e", "t", "w", "o", "r", "k">>,
        ids |-> <<"com.scripts.foodnetwork", "foodnetwork", "com.foodnetwork">>],
       [name |-> <<"P", "a", "r", "a", "m", "o", "u", "n", "t", "+">>,
        ids |-> <<"com.cbs.app", "paramountplus", "com.paramount">>]
    >>

\* app_name in fallback_ids
InFallback(app_name) == \E k \in 1..Len(fallback_ids) : fallback_ids[k].name = app_name

\* fallback_ids[app_name]
FallbackOf(app_name) ==
    fallback_ids[CHOOSE k \in 1..Len(fallback_ids) : fallback_ids[k].name = app_name].ids

\* what smart_launcher does next: done, or one more launch_app to submit
Stop(status) == [pc |-> "done", idx |-> 0, go |-> FALSE, id |-> "", status |-> status]
Launch(pc, idx, id, status) ==
    [pc |-> pc, idx |-> idx, go |-> TRUE, id |-> id, status |-> status]

\* variant: a name the table does not hold is tried as an app id of its own
Tier2GuessesId(app_name, i, status) ==
    IF InFallback(app_name)
    THEN IF i <= Len(FallbackOf(app_name))
         THEN Launch("tier2", i, FallbackOf(app_name)[i], status)
         ELSE Stop(status)
    ELSE IF i = 1 THEN Launch("tier2", 1, "guess", status) ELSE Stop(status)

\* if app_name in fallback_ids: for app_id in fallback_ids[app_name]: ...
\* else: update_status("Could not find ..."); i is the candidate to try next
Tier2(app_name, i, status) ==
    IF ~InFallback(app_name) THEN Stop("Could not find")
    ELSE IF i <= Len(FallbackOf(app_name))
    THEN Launch("tier2", i, FallbackOf(app_name)[i], status)
    ELSE Stop(status)

\* after apps = self.run_async(self.remote.get_apps())
AfterApps(app_name, apps, status) ==
    IF Truthy(apps) /\ Scan(app_name, apps.apps, 1) # 0
    THEN Launch("tier1", 0, apps.apps[Scan(app_name, apps.apps, 1)].id, status)
    ELSE Tier2(app_name, 1, status)

\* variant: without the return, the launcher goes on to the fallback ids
AfterTier1FallsThrough(app_name) == Tier2(app_name, 1, "Found and launching")

\* variant: the candidate loop ends after one candidate
AfterTier2GivesUp(app_name, i) == Stop("Trying")

\* after the launch of the catalog match has returned:
\* update_status("Found and launching ..."); return
AfterTier1(app_name) == Stop("Found and launching")

\* after the launch of candidate i has returned (run_async raises nothing):
\* update_status("Trying ..."); time.sleep(0.5); next candidate
AfterTier2(app_name, i) == Tier2(app_name, i + 1, "Trying")

(* ------------------------------ the device ----------------------------- *)
\* what the TV may answer to a request of the given kind
Answers(name) ==
    CASE name = "connect" ->
             {[ok |-> TRUE, val |-> None, key |-> k] : k \in Keys}
      [] name = "get_apps" ->
             {[ok |-> TRUE, val |-> Apps(c), key |-> NoKey] : c \in Catalogs}
      [] name = "get_muted" ->
             {[ok |-> TRUE, val |-> Bool(b), key |-> NoKey] : b \in BOOLEAN}
      [] OTHER -> {[ok |-> TRUE, val |-> None, key |-> NoKey]}

Failure == [ok |-> FALSE, val |-> None, key |-> NoKey]

\* the awaited device request of task t completes (answer or exception); the
\* loop, while it runs, queues the task's wakeup
DeviceRespond(t) ==
    /\ loopState = "running"
    /\ t \in 1..Len(tasks)
    /\ tasks[t].st = "awaiting"
    /\ \E r \in Answers(tasks[t].call.name) \cup {Failure} :
          tasks' = [tasks EXCEPT ![t].st = "woken", ![t].resp = r]
    /\ ready' = Enqueue(ready, [kind |-> "step", t |-> t])
    /\ UNCHANGED <<session, saved_client_key, config, ntodo, stopping, loopState,
                   threads, gui, clicks, timeouts, lim>>

(* --------------------------- the Tk main thread ------------------------ *)
NewThread(prog, name, ip) ==
    [prog |-> prog, pc |-> "start", name |-> name, ip |-> ip, cmd |-> 0,
     idx |-> 0, launched |-> <<>>, apps |-> None]

UserMayClick == gui.pc = "idle" /\ clicks < lim.clicks

\* TVRemoteGUI.connect_tv
connect_tv ==
    /\ UserMayClick
    /\ gui.connect_btn = "normal"
    /\ \E ip \in IPs :
          /\ ip # ""
          /\ threads' = Append(threads, NewThread("connect", <<>>, ip))
    /\ gui' = [gui EXCEPT !.status = "Connecting", !.connect_btn = "disabled"]
    /\ clicks' = clicks + 1
    /\ UNCHANGED <<session, saved_client_key, config, tasks, loopVars, timeouts, lim>>

\* the handlers that run one operation on the main thread
GuiOps == {"volume_up", "nav_up", "mute_toggle", "power_off"}

\* the status a handler writes after run_async has returned
Performed(op) ==
    CASE op = "volume_up" -> "Volume up"
      [] op = "nav_up" -> "Navigate up"
      [] op = "mute_toggle" -> "Mute toggled"
      [] op = "power_off" -> "TV powered off"

\* TVRemoteGUI.volume_up, nav_up, mute_toggle, power_off (the user having
\* answered yes to "Turn off TV?") up to the wait inside run_async
gui_op_call ==
    /\ UserMayClick
    /\ \E op \in GuiOps :
          /\ Submit(tasks, op, "", NoKey)
          /\ gui' = [gui EXCEPT !.pc = "wait", !.cmd = Len(tasks) + 1, !.op = op]
    /\ clicks' = clicks + 1
    /\ UNCHANGED <<session, saved_client_key, config, ntodo, stopping, loopState,
                   threads, timeouts, lim>>

\* ... and from the end of the wait: run_async returns, update_status(...)
gui_op_return ==
    /\ gui.pc = "wait"
    /\ \E how \in {"result", "timeout"} :
          /\ Ends(gui.cmd, how)
          /\ tasks' = Waited(gui.cmd, how)
          /\ timeouts' = Count(how)
    /\ gui' = [gui EXCEPT !.pc = "idle", !.status = Performed(gui.op)]
    /\ UNCHANGED <<session, saved_client_key, config, loopVars, threads, clicks, lim>>

\* TVRemoteGUI.launch_app_smart
launch_app_smart ==
    /\ UserMayClick
    /\ \E name \in Requested :
          threads' = Append(threads, NewThread("smart", name, ""))
    /\ clicks' = clicks + 1
    /\ UNCHANGED <<session, saved_client_key, config, tasks, loopVars, gui, timeouts, lim>>

\* TVRemoteGUI.refresh_apps
refresh_apps ==
    /\ UserMayClick
    /\ threads' = Append(threads, NewThread("refresh", <<>>, ""))
    /\ clicks' = clicks + 1
    /\ UNCHANGED <<session, saved_client_key, config, tasks, loopVars, gui, timeouts, lim>>

\* TVRemoteGUI.launch_selected_app, bound to a double click on the listbox:
\* with a line selected it calls self.launch_app(...), a method TVRemoteGUI
\* does not have (launch_app is LGTVRemote's): AttributeError is raised before
\* anything is handed to run_async, and Tk reports it and carries on
launch_selected_app ==
    /\ UserMayClick
    /\ \E k \in 1..Len(gui.listbox) : gui' = [gui EXCEPT !.selected = k]
    /\ clicks' = clicks + 1
    /\ UNCHANGED <<session, saved_client_key, config, tasks, loopVars, threads,
                   timeouts, lim>>

\* TVRemoteGUI.run: the window is closed, mainloop returns, and the finally
\* clause asks the loop to stop
run_finally ==
    /\ gui.pc = "idle"
    /\ gui' = [gui EXCEPT !.pc = "exited"]
    /\ ready' = Enqueue(ready, [kind |-> "stop", t |-> 0])
    /\ UNCHANGED <<session, saved_client_key, config, tasks, ntodo, stopping,
                   loopState, threads, clicks, timeouts, lim>>

(* --------------------------- the caller threads ------------------------ *)
At(i, prog, pcs) ==
    /\ i \in 1..Len(threads)
    /\ threads[i].prog = prog
    /\ threads[i].pc \in pcs

\* connect_tv.connect up to the wait inside run_async
connect_start(i) ==
    /\ At(i, "connect", {"start"})
    /\ Submit(tasks, "connect_to_tv", threads[i].ip, saved_client_key)
    /\ threads' = [threads EXCEPT ![i].pc = "wait", ![i].cmd = Len(tasks) + 1]
    /\ UNCHANGED <<session, saved_client_key, config, ntodo, stopping, loopState,
                   gui, clicks, timeouts, lim>>

\* save_config: the file is overwritten with LGTVRemote.get_client_key()
save_config == [written |-> config.written + 1, key |-> client_key]

\* connect_tv.connect from the end of the wait
connect_done(i) ==
    /\ At(i, "connect", {"wait"})
    /\ \E how \in {"result", "timeout"} :
          LET c == threads[i].cmd IN
          /\ Ends(c, how)
          /\ tasks' = Waited(c, how)
          /\ timeouts' = Count(how)
          /\ IF Truthy(Returned(c, how))
             THEN /\ config' = save_config
                  /\ threads' = Append([threads EXCEPT ![i].pc = "done"],
                                       NewThread("refresh", <<>>, ""))
                  /\ gui' = [gui EXCEPT !.status = "Connected successfully",
                                        !.connect_btn = "normal"]
             ELSE /\ config' = config
                  /\ threads' = [threads EXCEPT ![i].pc = "done"]
                  /\ gui' = [gui EXCEPT !.status = "Connection failed",
                                        !.connect_btn = "normal"]
    /\ UNCHANGED <<session, saved_client_key, loopVars, clicks, lim>>

\* refresh_apps.get_apps up to the wait
refresh_start(i) ==
    /\ At(i, "refresh", {"start"})
    /\ Submit(tasks, "get_apps", "", NoKey)
    /\ threads' = [threads EXCEPT ![i].pc = "wait", ![i].cmd = Len(tasks) + 1]
    /\ UNCHANGED <<session, saved_client_key, config, ntodo, stopping, loopState,
                   gui, clicks, timeouts, lim>>

\* the listbox lines: app.get('title', ...) of every app
Titles(apps) == [k \in 1..Len(apps) |-> apps[k].title]

\* refresh_apps.get_apps from the end of the wait: if apps: fill the listbox
refresh_done(i) ==
    /\ At(i, "refresh", {"wait"})
    /\ \E how \in {"result", "timeout"} :
          LET c == threads[i].cmd IN
          /\ Ends(c, how)
          /\ tasks' = Waited(c, how)
          /\ timeouts' = Count(how)
          /\ threads' = [threads EXCEPT ![i].pc = "done", ![i].apps = Returned(c, how)]
          /\ gui' = [gui EXCEPT !.status = IF Truthy(Returned(c, how))
                                           THEN "Found apps"
                                           ELSE StatusAfter(c, how),
                                !.listbox = IF Truthy(Returned(c, how))
                                            THEN Titles(Returned(c, how).apps)
                                            ELSE @]
    /\ UNCHANGED <<session, saved_client_key, config, loopVars, clicks, lim>>

\* smart_launcher up to its first wait: apps = self.run_async(self.remote.get_apps())
smart_start(i) ==
    /\ At(i, "smart", {"start"})
    /\ Submit(tasks, "get_apps", "", NoKey)
    /\ threads' = [threads EXCEPT ![i].pc = "apps", ![i].cmd = Len(tasks) + 1]
    /\ UNCHANGED <<session, saved_client_key, config, ntodo, stopping, loopState,
                   gui, clicks, timeouts, lim>>

\* the launcher's decision when its wait has ended with value ret
SmartNext(T, ret, status) ==
    CASE T.pc = "apps" -> AfterApps(T.name, ret, status)
      [] T.pc = "tier1" -> AfterTier1(T.name)
      [] T.pc = "tier2" -> AfterTier2(T.name, T.idx)

\* smart_launcher from the end of one wait to the next wait, or to its end
smart_step(i) ==
    /\ At(i, "smart", {"apps", "tier1", "tier2"})
    /\ \E how \in {"result", "timeout"} :
          LET c == threads[i].cmd
              T == threads[i]
              n == SmartNext(T, Returned(c, how), StatusAfter(c, how)) IN
          /\ Ends(c, how)
          /\ timeouts' = Count(how)
          /\ gui' = [gui EXCEPT !.status = n.status]
          /\ IF n.go
             THEN /\ Submit(Waited(c, how), "launch_app", n.id, NoKey)
                  /\ threads' = [threads EXCEPT
                        ![i].pc = n.pc, ![i].idx = n.idx, ![i].cmd = Len(tasks) + 1,
                        ![i].launched = Append(T.launched, Len(tasks) + 1),
                        ![i].apps = IF T.pc = "apps" THEN Returned(c, how) ELSE T.apps]
             ELSE /\ tasks' = Waited(c, how)
                  /\ ready' = ready
                  /\ threads' = [threads EXCEPT
                        ![i].pc = n.pc, ![i].idx = n.idx,
                        ![i].apps = IF T.pc = "apps" THEN Returned(c, how) ELSE T.apps]
    /\ UNCHANGED <<session, saved_client_key, config, ntodo, stopping, loopState, clicks, lim>>

(* --------------------------- the specification ------------------------- *)
Worker ==
    \/ LoopCreate
    \/ LoopDeliver
    \/ LoopStop
    \/ connect_to_tv
    \/ single_call_op
    \/ mute_toggle
    \/ get_apps

Device == \E t \in 1..Len(tasks) : DeviceRespond(t)

Callers ==
    \E i \in 1..Len(threads) :
        \/ connect_start(i)
        \/ connect_done(i)
        \/ refresh_start(i)
        \/ refresh_done(i)
        \/ smart_start(i)
        \/ smart_step(i)

Next ==
    \/ connect_tv
    \/ gui_op_call
    \/ gui_op_return
    \/ launch_app_smart
    \/ refresh_apps
    \/ launch_selected_app
    \/ run_finally
    \/ Callers
    \/ Worker
    \/ Device

Spec == Init /\ [][Next]_vars

(* ------------------------- a session at rest --------------------------- *)
\* the session between user actions, no caller using it: never connected,
\* left by a connect that succeeded, or left by a connect that failed
AtRest ==
    /\ \E k \in {NoKey} \cup Keys, ok \in BOOLEAN :
          /\ client = IF k = NoKey /\ ok THEN 0 ELSE 1
          /\ clients = IF k = NoKey /\ ok THEN <<>>
                       ELSE <<[key |-> IF ok THEN k ELSE NoKey]>>
          /\ connected = (k # NoKey /\ ok)
          /\ client_key = IF ok THEN k ELSE NoKey
          /\ config = IF k # NoKey /\ ok THEN [written |-> 1, key |-> k]
                      ELSE [written |-> 0, key |-> NoKey]
    /\ saved_client_key = NoKey
    /\ tasks = <<>>
    /\ ready = <<>>
    /\ ntodo = 0
    /\ stopping = FALSE
    /\ loopState = "running"
    /\ gui = [pc |-> "idle", cmd |-> 0, op |-> "", connect_btn |-> "normal",
              status |-> "Ready", listbox |-> <<>>, selected |-> 0]
    /\ clicks = 0
    /\ timeouts = 0

(* ------------- one launch_app_smart on a session at rest --------------- *)
\* launch_app_smart(name) has just been called, for each requested name
LaunchInit ==
    /\ AtRest
    /\ \E name \in Requested : threads = <<NewThread("smart", name, "")>>
    /\ lim = [clicks |-> 0, timeouts |-> LaunchTimeouts, tasks |-> LaunchTasks]

LaunchNext ==
    \/ (\E i \in 1..Len(threads) : smart_start(i) \/ smart_step(i))
    \/ LoopCreate
    \/ LoopDeliver
    \/ LoopStop
    \/ single_call_op
    \/ get_apps
    \/ Device
    \/ run_finally

LaunchSpec == LaunchInit /\ [][LaunchNext]_vars

(* --------- the one-operation buttons on a session at rest -------------- *)
\* bounds of this exploration: user actions, timed-out waits, commands
OpClicks == 2
OpTimeouts == 1
OpTasks == 2

OpInit ==
    /\ AtRest
    /\ threads = <<>>
    /\ lim = [clicks |-> OpClicks, timeouts |-> OpTimeouts, tasks |-> OpTasks]

\* the user presses one-operation buttons and closes the window; the main
\* thread is the only caller of the bridge
OpNext ==
    \/ gui_op_call
    \/ gui_op_return
    \/ run_finally
    \/ LoopCreate
    \/ LoopDeliver
    \/ LoopStop
    \/ single_call_op
    \/ mute_toggle
    \/ Device

OpSpec == OpInit /\ [][OpNext]_vars

(* ------------- the callers' waits, whatever the worker does ------------ *)
\* bounds of this exploration: user actions and commands; every wait may
\* time out
WaitClicks == 2
WaitTasks == 2

WaitInit ==
    /\ AtRest
    /\ threads = <<>>
    /\ lim = [clicks |-> WaitClicks, timeouts |-> WaitTasks, tasks |-> WaitTasks]

\* callers on the main thread and on a daemon thread; the loop and the TV may
\* run, stall or stop
WaitNext ==
    \/ gui_op_call
    \/ gui_op_return
    \/ refresh_apps
    \/ run_finally
    \/ (\E i \in 1..Len(threads) : refresh_start(i) \/ refresh_done(i))
    \/ LoopCreate
    \/ LoopDeliver
    \/ LoopStop
    \/ single_call_op
    \/ mute_toggle
    \/ get_apps
    \/ Device

\* a caller blocked in future.result(timeout=10) is resumed by the delivered
\* outcome or by the timer; nothing is assumed of the loop or of the TV
WaitFairness ==
    /\ WF_vars(gui_op_return)
    /\ \A i \in 1..WaitClicks : WF_vars(refresh_done(i))

WaitSpec == WaitInit /\ [][WaitNext]_vars /\ WaitFairness

(* ------------------ the program under fair scheduling ------------------ *)
\* the user acts on a session at rest
FairInit ==
    /\ AtRest
    /\ threads = <<>>
    /\ lim = [clicks |-> FairClicks, timeouts |-> FairTimeouts, tasks |-> FairTasks]

\* the loop thread runs whenever a handle is ready (run_forever), and every
\* device request ends, with an answer or with an error
Fairness ==
    /\ WF_vars(Worker)
    /\ \A t \in 1..FairTasks : WF_vars(DeviceRespond(t))

\* the callers of the bridge that the Connect button and the one-operation
\* buttons start
FairNext ==
    \/ connect_tv
    \/ gui_op_call
    \/ gui_op_return
    \/ run_finally
    \/ (\E i \in 1..Len(threads) :
           connect_start(i) \/ connect_done(i) \/ refresh_start(i) \/ refresh_done(i))
    \/ Worker
    \/ Device

FairSpec == FairInit /\ [][FairNext]_vars /\ Fairness

(* ============================== the claims ============================= *)
TaskIds == 1..Len(tasks)

\* the coroutine of task t has begun to run on the loop
Started(t) == tasks[t].st \notin {"pending", "scheduled"}

\* the coroutine of task t has returned or raised
Done(t) == tasks[t].st \in {"finished", "delivered"}

\* task t has a device request outstanding
InFlight(t) == tasks[t].st = "awaiting"

\* C1: the device has at most one command in flight at any instant: no task
\* issues a device call while another task awaits its device response.
C1_OneInFlight == Cardinality({t \in TaskIds : InFlight(t)}) <= 1

\* C2: tasks start in the order run_async accepted them (the order of their
\* numbers): a started task has no unstarted task accepted before it.
C2_FifoStart ==
    \A a \in TaskIds, b \in TaskIds : (a < b /\ Started(b)) => Started(a)

\* two callers submitted: the connect thread's task, accepted first, has
\* begun and awaits the device; the main thread's task, accepted second, has
\* its first step queued behind it
C2_Witness ==
    /\ Len(tasks) = 2
    /\ tasks[1].st = "awaiting"
    /\ tasks[2].st = "scheduled"
    /\ \E i \in 1..Len(threads) : threads[i].cmd = 1
    /\ gui.pc = "wait" /\ gui.cmd = 2

\* C3: a command whose caller timed out is not cancelled: while the loop runs
\* it is carried on to its end (return or device error).
C3_TimeoutLeavesCommand ==
    \A t \in 1..FairTasks :
        (t <= Len(tasks) /\ tasks[t].caller = "timeout")
        ~> ((t <= Len(tasks) /\ Done(t)) \/ loopState = "stopped")

\* the caller of a connect_to_tv timed out, and the command has since
\* completed on the loop and made the session connected
C3_Witness ==
    \E t \in TaskIds :
        /\ tasks[t].op = "connect_to_tv"
        /\ tasks[t].caller = "timeout"
        /\ tasks[t].got = None
        /\ Done(t)
        /\ tasks[t].result = Bool(TRUE)
        /\ connected
        /\ loopState = "running"

\* C4: what run_async hands its caller after a timeout differs from what it
\* hands its caller after a device error.
C4_TimeoutDistinctFromError ==
    \A a \in TaskIds, b \in TaskIds :
        (tasks[a].caller = "timeout" /\ tasks[b].caller = "error")
        => tasks[a].got # tasks[b].got

\* C5: the loop stops only when run() has asked it to, and while it runs
\* every accepted command is begun, whatever failed or timed out before.
C5_WorkerSurvives ==
    /\ [](loopState = "stopped" => gui.pc = "exited")
    /\ \A t \in 1..FairTasks :
          (t <= Len(tasks))
          ~> ((t <= Len(tasks) /\ Started(t)) \/ loopState = "stopped")

\* the main thread's first command raised a device error, the handler
\* returned, and the command of a later click has begun on the loop
C5_Witness ==
    /\ Len(tasks) = 2
    /\ tasks[1].op \in GuiOps /\ tasks[2].op \in GuiOps
    /\ tasks[1].raised /\ tasks[1].caller = "error"
    /\ Started(2)
    /\ loopState = "running"

\* no connect attempt is under way on the loop
NoConnectRunning ==
    \A t \in TaskIds : tasks[t].op = "connect_to_tv" => Done(t)

\* C6: while the session is not connected no operation other than connect
\* has a device call outstanding.
C6_NotConnectedNoDeviceCall ==
    \A t \in TaskIds :
        (InFlight(t) /\ tasks[t].op # "connect_to_tv" /\ NoConnectRunning)
        => connected
SmartThreads == {i \in 1..Len(threads) : threads[i].prog = "smart"}

\* the app ids a launcher has submitted launch_app for, in order
LaunchedIds(i) ==
    [k \in 1..Len(threads[i].launched) |-> tasks[threads[i].launched[k]].arg]

\* s contains sub as a contiguous run of characters
HasRun(s, sub) ==
    \E a \in 0..Len(s) :
        /\ a + Len(sub) <= Len(s)
        /\ \A j \in 1..Len(sub) : s[a + j] = sub[j]

\* symmetric, case-insensitive containment of a requested name and a title
Contained(name, title) ==
    \/ HasRun(Lower(title), Lower(name))
    \/ HasRun(Lower(name), Lower(title))

\* the positions of the catalog entries a requested name matches
MatchSet(name, cat) == {k \in 1..Len(cat) : Contained(name, cat[k].title)}

Min(S) == CHOOSE m \in S : \A n \in S : m <= n

\* the launcher has received its catalog and decided what to do with it
Decided(i) == threads[i].pc \in {"tier1", "tier2", "done"}

\* the catalog the launcher received: empty when get_apps failed or timed out
CatalogOf(i) == threads[i].apps.apps

\* the device took the launch request of task t and run_async returned
\* normally to the launcher
Accepted(t) ==
    /\ tasks[t].caller = "returned"
    /\ tasks[t].call.name = "launch_app"
    /\ tasks[t].resp.ok

\* C7: in the alias-table tier the launcher stops at the first launch call
\* that raises no device error: no candidate is submitted after a candidate
\* whose launch the device accepted.
C7_StopsAtFirstAccepted ==
    \A i \in SmartThreads :
        \A k \in 1..(Len(threads[i].launched) - 1) :
            ~Accepted(threads[i].launched[k])

\* C8: with a non-empty catalog in which some title matches the requested
\* name (symmetric, case-insensitive containment), the launcher launches the
\* id of the first matching entry in catalog order, and nothing else.
C8_Tier1Resolution ==
    \A i \in SmartThreads :
        (Decided(i) /\ MatchSet(threads[i].name, CatalogOf(i)) # {})
        => LaunchedIds(i) =
             <<CatalogOf(i)[Min(MatchSet(threads[i].name, CatalogOf(i)))].id>>

\* a launcher asked for Hulu got a catalog whose first entry does not match
\* and whose second matches only without regard to case ("HULU Live"), and
\* has launched the second entry's id
C8_Witness ==
    \E i \in SmartThreads :
        /\ threads[i].name = Hulu
        /\ Len(CatalogOf(i)) = 2
        /\ MatchSet(Hulu, CatalogOf(i)) = {2}
        /\ threads[i].pc = "done"
        /\ LaunchedIds(i) = <<"com.hulu.live">>

\* C9: once the launcher waits for the launch of a catalog match, its only
\* next step is to end, and it submits no further launch, whatever that
\* launch's outcome was.
C9_Tier1SingleAttempt ==
    [][\A i \in SmartThreads :
          threads[i].pc = "tier1"
          => /\ threads'[i].pc \in {"tier1", "done"}
             /\ threads'[i].launched = threads[i].launched
             /\ Len(threads[i].launched) = 1]_vars

\* a launcher whose catalog match failed to launch (device error) has ended
\* with that one launch, although the alias table knows the requested name
C9_Witness ==
    \E i \in SmartThreads :
        /\ threads[i].pc = "done"
        /\ MatchSet(threads[i].name, CatalogOf(i)) # {}
        /\ InFallback(threads[i].name)
        /\ Len(threads[i].launched) = 1
        /\ tasks[threads[i].launched[1]].caller = "error"

\* the alias-table entries of two names, as the source lists them
EspnIds == <<"espn", "com.espn.webostv", "com.espn.app">>
YouTubeIds == <<"youtube.leanback.v4", "youtube">>

\* the candidates the alias table holds for exactly this name, <<>> if none
AliasIds(name) ==
    IF \E k \in DOMAIN fallback_ids : fallback_ids[k].name = name
    THEN (CHOOSE e \in {fallback_ids[k] : k \in DOMAIN fallback_ids} :
             e.name = name).ids
    ELSE <<>>

\* C10: with no catalog match (catalog empty, absent or without a matching
\* title) the launcher submits the alias-table candidates of exactly the
\* requested name, in table order from the first; when it has ended it has
\* submitted all of them, whatever the outcome of each launch.
C10_Tier2Resolution ==
    /\ AliasIds(ESPN) = EspnIds
    /\ AliasIds(YouTube) = YouTubeIds
    /\ AliasIds(hulu) = <<>>
    /\ \A i \in SmartThreads :
          (Decided(i) /\ MatchSet(threads[i].name, CatalogOf(i)) = {})
          => /\ Len(LaunchedIds(i)) <= Len(AliasIds(threads[i].name))
             /\ LaunchedIds(i) =
                  SubSeq(AliasIds(threads[i].name), 1, Len(LaunchedIds(i)))
             /\ threads[i].pc = "done"
                  => LaunchedIds(i) = AliasIds(threads[i].name)

\* a launcher asked for ESPN found no catalog match, its first candidate's
\* launch raised a device error, and it has submitted all three candidates
C10_Witness ==
    \E i \in SmartThreads :
        /\ threads[i].name = ESPN
        /\ threads[i].pc = "done"
        /\ LaunchedIds(i) = EspnIds
        /\ tasks[threads[i].launched[1]].caller = "error"

\* the launcher found no catalog match and the alias table does not hold the
\* requested name
Unresolvable(i) ==
    /\ Decided(i)
    /\ MatchSet(threads[i].name, CatalogOf(i)) = {}
    /\ AliasIds(threads[i].name) = <<>>

\* C11 (as amended): for a requested name with no catalog match and no
\* alias-table entry the launcher ends at once with the status "Could not
\* find" and submits no launch; the only command of the request is the
\* catalog read, which issues at most the one get_apps device request.
C11_UnresolvableNoLaunch ==
    \A i \in SmartThreads :
        Unresolvable(i)
        => /\ threads[i].pc = "done"
           /\ gui.status = "Could not find"
           /\ threads[i].launched = <<>>
           /\ Len(tasks) = 1
           /\ tasks[1].op = "get_apps"
           /\ tasks[1].call # NoCall => tasks[1].call.name = "get_apps"
           /\ ~HasSession => tasks[1].call = NoCall

\* C11 (as stated): for a requested name with no catalog match and no
\* alias-table entry the request issues zero device calls.
C11_ZeroDeviceCalls ==
    \A i \in SmartThreads :
        Unresolvable(i) => \A t \in TaskIds : tasks[t].call = NoCall

\* a launcher asked for "hulu" on a connected session was answered an empty
\* catalog by the TV, found no alias entry, and ended with "Could not find"
C11_Witness ==
    \E i \in SmartThreads :
        /\ threads[i].name = hulu
        /\ Unresolvable(i)
        /\ connected
        /\ tasks[1].call.name = "get_apps" /\ tasks[1].resp.ok
        /\ tasks[1].caller = "returned"
        /\ gui.status = "Could not find"

\* the connect attempts, by task number
ConnectTasks == {t \in TaskIds : tasks[t].op = "connect_to_tv"}

\* the connect thread of attempt t was told by run_async that it succeeded
ConnectSucceeded(t) ==
    /\ tasks[t].caller = "returned"
    /\ tasks[t].result = Bool(TRUE)

\* C12: once a connect has succeeded and obtained a pairing key, every later
\* connect attempt hands that key to the device client it creates.
C12_KeyRetained ==
    \A a \in ConnectTasks, b \in ConnectTasks :
        (a < b /\ ConnectSucceeded(a)) => tasks[b].key = tasks[a].resp.key

\* the connect attempts that completed successfully on the loop
ConnectsCompleted == {t \in ConnectTasks : Done(t) /\ tasks[t].result = Bool(TRUE)}

\* every connect thread has ended and every connect attempt is over on the
\* loop: nothing is left that could still write the config file
ConnectsSettled ==
    /\ \A i \in 1..Len(threads) : threads[i].prog = "connect" => threads[i].pc = "done"
    /\ \A t \in ConnectTasks : Done(t)

\* C13: the config file is written once for every connect that completed
\* successfully on the loop (also when the caller's wait had timed out), with
\* the session's current key, and never for a failed connect: once the
\* connect threads have ended, the writes number the successful connects.
C13_SavedAfterEverySuccess ==
    ConnectsSettled
    => /\ config.written = Cardinality(ConnectsCompleted)
       /\ ConnectsCompleted # {} => config.key = client_key

\* device client c holds an open connection: its connect() has succeeded, and
\* nothing closes a connection but WebOsClient.disconnect(), which only
\* LGTVRemote.disconnect calls and which no handler of the GUI ever calls
Open(c) ==
    \E t \in ConnectTasks :
        /\ tasks[t].call # NoCall
        /\ tasks[t].call.client = c
        /\ tasks[t].st \in {"woken", "finished", "delivered"}
        /\ tasks[t].resp.ok

\* C14: at most one device connection opened by this process is open at any
\* time: a connect made on a connected session leaves no earlier connection
\* open beside the new one.
C14_SingleLiveSession ==
    Cardinality({c \in 1..Len(clients) : Open(c)}) <= 1

\* the coroutine of task t issues a device request in this step
Issues(t) == tasks[t].st # "awaiting" /\ tasks'[t].st = "awaiting"

\* the coroutine of task t ends in this step
Ends_(t) == ~Done(t) /\ tasks'[t].st = "finished"

MuteTasks == {t \in TaskIds : tasks[t].op = "mute_toggle"}

\* C15: mute_toggle on a session with a client issues its device calls in
\* this order and no others: first get_muted; then, the read having returned
\* a value, set_mute on the same client with the negation of that value. It
\* returns normally only after both calls, and without a call only when the
\* session has no client.
C15_MuteReadThenSet ==
    [][\A t \in MuteTasks :
          /\ Issues(t)
             => \/ /\ tasks[t].st = "scheduled"
                   /\ HasSession
                   /\ tasks'[t].call.name = "get_muted"
                \/ /\ tasks[t].st = "woken"
                   /\ tasks[t].call.name = "get_muted"
                   /\ tasks[t].resp.ok
                   /\ tasks'[t].call.name = "set_mute"
                   /\ tasks'[t].call.client = tasks[t].call.client
                   /\ tasks'[t].call.arg \in {"True", "False"}
                   /\ (tasks'[t].call.arg = "True") <=> ~tasks[t].resp.val.b
          /\ (Ends_(t) /\ ~tasks'[t].raised)
             => \/ tasks[t].st = "scheduled" /\ ~HasSession
                \/ tasks[t].st = "woken" /\ tasks[t].call.name = "set_mute"
          /\ (tasks[t].st = "scheduled" /\ HasSession) => ~Ends_(t)
          /\ (tasks[t].st = "woken" /\ tasks[t].resp.ok
                /\ tasks[t].call.name = "get_muted") => ~Ends_(t)]_vars

\* on a connected session the TV answered the read with "muted", the
\* coroutine then asked set_mute(False), and the handler has returned
C15_Witness ==
    \E t \in MuteTasks :
        /\ connected
        /\ tasks[t].call.name = "set_mute"
        /\ tasks[t].call.arg = "False"
        /\ tasks[t].st = "delivered"
        /\ ~tasks[t].raised
        /\ tasks[t].caller = "returned"

\* C16: every run_async call returns to its caller, with the result the loop
\* delivered or on the timeout, whatever the loop and the TV do (the command
\* never completing, the loop stopped); and a command's exception is not
\* passed on: the caller gets None.
C16_BoundedWait ==
    /\ \A t \in 1..WaitTasks :
          (t <= Len(tasks)) ~> (t <= Len(tasks) /\ tasks[t].caller # "waiting")
    /\ [](\A t \in TaskIds :
             /\ tasks[t].caller \in {"waiting", "returned", "error", "timeout"}
             /\ tasks[t].caller \in {"error", "timeout"} => tasks[t].got = None
             /\ tasks[t].caller = "error" => tasks[t].raised)

\* a daemon thread called run_async after the loop had stopped: its command
\* was never begun, and the call has returned by timing out
C16_Witness ==
    \E t \in TaskIds :
        /\ loopState = "stopped"
        /\ tasks[t].st = "pending"
        /\ tasks[t].caller = "timeout"
        /\ \E i \in 1..Len(threads) : threads[i].cmd = t /\ threads[i].pc = "done"

\* the connect attempt that created the current client handle has completed
\* and failed
CurrentConnectFailed ==
    \E t \in ConnectTasks :
        /\ Done(t)
        /\ tasks[t].call.client = client
        /\ tasks[t].result = Bool(FALSE)

\* C17: after a connect attempt has completed the session is connected
\* exactly when that attempt succeeded: the connected flag is not true while
\* the current client handle is one whose connect failed.
C17_ConnectedMatchesOutcome == CurrentConnectFailed => ~connected

\* the handler of the last one-operation button has returned, and its
\* run_async call had ended in a device error or in a timeout
LastOpFailed ==
    /\ gui.pc # "wait"
    /\ gui.cmd # 0
    /\ tasks[gui.cmd].caller \in {"error", "timeout"}

\* C18: when a one-operation command fails with a device error or times
\* out, the status shown once its handler has returned is the error, never
\* the operation reported as performed.
C18_ErrorShown ==
    LastOpFailed => (gui.status = "Error" /\ gui.status # Performed(gui.op))

\* C19: the shutdown step of run() only queues the request to stop and
\* returns, waiting for no command; and once the loop has stopped it stays
\* stopped and runs nothing: no command, whether submitted before or after,
\* is begun, continued or completed, no handle leaves the queue, and the
\* session is not touched.
C19_ShutdownDrainsNothing ==
    [][/\ (gui.pc # "exited" /\ gui'.pc = "exited")
          => /\ ready' = Append(ready, [kind |-> "stop", t |-> 0])
             /\ tasks' = tasks
             /\ loopState' = loopState
             /\ stopping' = stopping
       /\ loopState = "stopped"
          => /\ loopState' = "stopped"
             /\ session' = session
             /\ Len(ready') >= Len(ready)
             /\ SubSeq(ready', 1, Len(ready)) = ready
             /\ \A t \in TaskIds :
                   /\ tasks'[t].st = tasks[t].st
                   /\ tasks'[t].call = tasks[t].call
                   /\ tasks'[t].resp = tasks[t].resp
                   /\ tasks'[t].result = tasks[t].result
             /\ \A t \in (1..Len(tasks')) \ TaskIds :
                   tasks'[t].st = "pending" /\ tasks'[t].call = NoCall]_vars

\* the loop has stopped with a device request of one command still
\* outstanding and the handle of another command left in its queue; that
\* command, submitted too late for the loop's last iteration, was never
\* begun and its caller has timed out
C19_Witness ==
    /\ loopState = "stopped"
    /\ gui.pc = "exited"
    /\ \E t \in TaskIds : tasks[t].st = "awaiting"
    /\ \E u \in TaskIds :
          /\ tasks[u].st = "pending"
          /\ tasks[u].caller = "timeout"
          /\ \E k \in 1..Len(ready) : ready[k] = [kind |-> "create", t |-> u]

\* C20: when a line of the refreshed app list has been double-clicked,
\* launch_selected_app has submitted a launch command for it to the bridge.
C20_SelectionLaunches ==
    gui.selected # 0
    => \E t \in TaskIds : tasks[t].op = "launch_app"

\* the connect attempts that have begun on the loop and are not over there
ConnectsExecuting == {t \in ConnectTasks : Started(t) /\ ~Done(t)}

\* C21: the Connect button is disabled while a connect thread has not yet
\* reported its outcome, and so no second connect_to_tv begins on the loop
\* while an earlier connect_to_tv is still executing there.
C21_OneConnectAtATime ==
    /\ \A i \in 1..Len(threads) :
          (threads[i].prog = "connect" /\ threads[i].pc # "done")
          => gui.connect_btn = "disabled"
    /\ Cardinality(ConnectsExecuting) <= 1

====
